---- MODULE Spec2Model ----
(***************************************************************************)
(* Model of cloud/amazon/s3.py: one run of main() per invocation, against  *)
(* a bucket/object store and a local file system.  Every step is one call  *)
(* of a helper of the module (bucket_check, key_check, keysum, ...), with  *)
(* the store's answer chosen nondeterministically.                         *)
(*                                                                         *)
(* File contents are sequences of blocks; one block stands for the         *)
(* 1024 ** 2 bytes that one f.read(1024 ** 2) returns.                     *)
(***************************************************************************)
EXTENDS Integers, Sequences, FiniteSets, TLC

\* ------------------------------------------------------------ bounds
MaxLen == 2          \* longest file content, in blocks
MaxRetries == 2      \* largest retry budget tried

\* number of blocks one f.read(1024 ** 2) returns
ReadBlocks == 1

\* ------------------------------------------------------------ values
Procs == {1, 2}                 \* invocations (independent processes)
Keys == {"k"}                   \* object keys
DirKeys == {"k/"}               \* keys of "virtual directories"
AllKeys == Keys \cup DirKeys
Paths == {"/f"}                 \* local paths
Blocks == {"a", "b"}            \* block values
None == "None"                  \* Python None, for a string-valued name
Unset == "unset"                \* a Python local not yet bound
NoneDigest == <<"None">>        \* Python None, for a digest-valued name
UnsetDigest == <<>>             \* a digest-valued local not yet bound

Contents == UNION {[1..n -> Blocks] : n \in 0..MaxLen}

Range(s) == {s[i] : i \in 1..Len(s)}

Min(a, b) == IF a < b THEN a ELSE b

\* local file system entries
NoFile == [kind |-> "absent", data |-> <<>>]
DirEntry == [kind |-> "dir", data |-> <<>>]
FileOf(c) == [kind |-> "file", data |-> c]
FileStates == {NoFile, DirEntry} \cup {FileOf(c) : c \in Contents}

\* remote objects and the store (one bucket name)
NoObj == [exists |-> FALSE, data |-> <<>>, multipart |-> FALSE]
ObjOf(c, mp) == [exists |-> TRUE, data |-> c, multipart |-> mp]
ObjStates == {NoObj} \cup {ObjOf(c, mp) : c \in Contents, mp \in BOOLEAN}
NoBucket == [exists |-> FALSE, keys |-> [k \in AllKeys |-> NoObj]]
EmptyBucket == [exists |-> TRUE, keys |-> [k \in AllKeys |-> NoObj]]
\* a directory key, where present, holds the empty content create_dirkey gives it
DirStates == {NoObj, ObjOf(<<>>, FALSE)}
StoreStates ==
    {NoBucket} \cup
    {[exists |-> TRUE, keys |-> ks] :
        ks \in {f \in [AllKeys -> ObjStates] : \A k \in DirKeys : f[k] \in DirStates}}

Modes == {"get", "put", "delete", "create", "geturl", "getstr", "delobj"}
Overwrites == {"always", "never", "different"}
Versions == {None, "v1"}

VARIABLES
    store,      \* the remote bucket and its objects
    fs,         \* the local file system: path -> entry
    pc,         \* per invocation: the statement of main() it is at
    params,     \* per invocation: module.params after main()'s defaults
    lv,         \* per invocation: main()'s local names
    calls,      \* per invocation: the boto calls issued so far, in order
    attempts,   \* per invocation: the result of each get_contents_to_filename
    outcome,    \* per invocation: what exit_json / fail_json was given
    pre,        \* per invocation: store and fs when the invocation started
    writes      \* the uploads the store has executed, in order: who wrote what

vars == <<store, fs, pc, params, lv, calls, attempts, outcome, pre, writes>>

\* ------------------------------------------------------------ outcomes
NoDetail == [exc |-> None, pass |-> -1]
NoOutcome == [kind |-> "none", changed |-> Unset, msg |-> "", detail |-> NoDetail]

\* module.exit_json(msg=m, changed=c); c is Unset when the call passes no changed
exit_json(m, c) == [kind |-> "exit", changed |-> c, msg |-> m, detail |-> NoDetail]

\* module.fail_json(msg=m)
fail_json(m) == [kind |-> "fail", changed |-> Unset, msg |-> m, detail |-> NoDetail]

\* module.fail_json(msg=m, changed=False), lines 520 and 534
fail_json_changed(m, c) == [kind |-> "fail", changed |-> c, msg |-> m, detail |-> NoDetail]

\* module.fail_json with a message built from exception e: its class, and the
\* pass of the download loop that raised it (-1 outside the loop)
fail_json_exc(m, exc, x) ==
    [kind |-> "fail", changed |-> Unset, msg |-> m, detail |-> [exc |-> exc, pass |-> x]]

\* an exception no handler of the module catches: the run ends in a traceback
Traceback(exc) ==
    [kind |-> "traceback", changed |-> Unset, msg |-> "", detail |-> [exc |-> exc, pass |-> -1]]

\* ------------------------------------------------------------ digests
\* hashlib.md5: update() appends to the hashed input, hexdigest() is taken
\* to be injective in it
md5_new == <<"md5">>
md5_update(state, data) == Append(state, data)

\* f.read(1024 ** 2): the first ReadBlocks blocks of the file
ReadOnce(data) == SubSeq(data, 1, Min(Len(data), ReadBlocks))

RECURSIVE md5_feed(_, _)
md5_feed(state, chunk) ==
    IF chunk = <<>> THEN state
    ELSE md5_feed(md5_update(state, Head(chunk)), Tail(chunk))

\* get_md5_digest(local_file): one read, every element of it hashed
get_md5_digest(data) == md5_feed(md5_new, ReadOnce(data))

\* the store's ETag of an object: the quoted MD5 of the whole content, or
\* for a multipart upload a quoted digest followed by "-<parts>"
Etag(o) ==
    <<"\"">> \o md5_feed(md5_new, o.data)
             \o (IF o.multipart THEN <<"-", "2">> ELSE <<>>) \o <<"\"">>

\* a slip in lines 180-182: the multipart marker is not looked for
keysum_NoMultipartCheck(o) ==
    IF ~o.exists THEN [fail |-> FALSE, md5 |-> NoneDigest]
    ELSE [fail |-> FALSE, md5 |-> SubSeq(Etag(o), 2, Len(Etag(o)) - 1)]

\* keysum(): [fail |-> module.fail_json was called, md5 |-> the value returned]
keysum(o) ==
    IF ~o.exists THEN [fail |-> FALSE, md5 |-> NoneDigest]
    ELSE LET md5_remote == SubSeq(Etag(o), 2, Len(Etag(o)) - 1)
             etag_multipart == "-" \in Range(md5_remote)
         IN  IF etag_multipart THEN [fail |-> TRUE, md5 |-> md5_remote]
             ELSE [fail |-> FALSE, md5 |-> md5_remote]

\* a slip in lines 242-245: every path is reported to exist
path_check_AlwaysTrue(entry) == TRUE

\* path_check(path): os.path.exists
path_check(entry) == entry.kind # "absent"

\* ------------------------------------------------------------ decisions
\* a slip in lines 445-448: equal digests end the run whatever the policy
GetDecision_SkipsIdentical(md5_local, md5_remote, overwrite) ==
    IF md5_local = md5_remote
    THEN "identical"
    ELSE IF overwrite \in {"always", "different"} THEN "download" ELSE "warning"

\* a slip in lines 452-455: differing digests always download
GetDecision_ForcesNever(md5_local, md5_remote, overwrite) ==
    IF md5_local = md5_remote
    THEN IF overwrite = "always" THEN "download" ELSE "identical"
    ELSE "download"

\* main(), mode == 'get', lines 443-455: what follows the digest comparison
GetDecision(md5_local, md5_remote, overwrite) ==
    IF md5_local = md5_remote
    THEN IF overwrite = "always" THEN "download" ELSE "identical"
    ELSE IF overwrite \in {"always", "different"} THEN "download" ELSE "warning"

\* a slip in lines 495-498: differing digests upload whatever the policy
PutDecision_ForcesNever(md5_local, md5_remote, overwrite) ==
    IF md5_local = md5_remote
    THEN IF overwrite = "always" THEN "upload" ELSE "geturl"
    ELSE "upload"

\* main(), mode == 'put', lines 487-498
PutDecision(md5_local, md5_remote, overwrite) ==
    IF md5_local = md5_remote
    THEN IF overwrite = "always" THEN "upload" ELSE "geturl"
    ELSE IF overwrite \in {"always", "different"} THEN "upload" ELSE "warning"

\* a slip in line 275: the last pass is taken to be pass retries + 1
RetryStep_OneMore(result, x, retries) ==
    CASE result = "ok" -> "exit"
      [] result = "copy_error" -> "fail_copy"
      [] result = "ssl_error" -> IF x > retries THEN "fail_ssl" ELSE "again"

\* a slip in lines 271-272: a copy error is retried like a transport error
RetryStep_RetriesCopy(result, x, retries) ==
    CASE result = "ok" -> "exit"
      [] result \in {"copy_error", "ssl_error"} ->
            IF x >= retries THEN (IF result = "copy_error" THEN "fail_copy" ELSE "fail_ssl")
            ELSE "again"

\* download_s3file(), lines 268-278: what pass x of the loop does with the
\* result of key.get_contents_to_filename
RetryStep(result, x, retries) ==
    CASE result = "ok" -> "exit"
      [] result = "copy_error" -> "fail_copy"
      [] result = "ssl_error" -> IF x >= retries THEN "fail_ssl" ELSE "again"

\* a slip in lines 501-503: the upload is tried without creating the bucket
PutAfterBucketCheck_NoCreate(bucketrtn) == IF bucketrtn THEN "put_key" ELSE "upload"

\* main(), mode == 'put', lines 479-507: the statement reached after
\* bucket_check, and after key_check
PutAfterBucketCheck(bucketrtn) == IF bucketrtn THEN "put_key" ELSE "put_create"
PutAfterKeyCheck(keyrtn) == IF keyrtn THEN "put_keysum" ELSE "upload"

\* main(), mode == 'put', lines 473-475
PutAfterPathCheck(pathrtn) == IF pathrtn THEN "put_bucket" ELSE "fail"

\* a slip: the digests are compared even when there is no local file
GetAfterPathCheck_AlwaysCompares(pathrtn) == "get_keysum"

\* main(), mode == 'get', lines 434-439
GetAfterPathCheck(pathrtn) == IF pathrtn THEN "get_keysum" ELSE "download"

\* a slip: a key the bucket does not hold is reported as present
key_check_MissingIsPresent(r, version, objExists) ==
    CASE r = "ok" -> "True"
      [] r = "error400" -> IF version # None THEN "False" ELSE "fail"
      [] r = "error" -> "fail"

\* key_check(): the value returned, or "fail" when module.fail_json is called
key_check(r, version, objExists) ==
    CASE r = "ok" -> IF objExists THEN "True" ELSE "False"
      [] r = "error400" -> IF version # None THEN "False" ELSE "fail"
      [] r = "error" -> "fail"

PyBool(b) == IF b THEN "True" ELSE "False"

\* a slip: a missing bucket is reported as a successful no-op
BucketMissing_NoOp(mode) == exit_json("Bucket does not exist.", "False")

\* what main() reports when bucket_check returns False (lines 423, 520, 534,
\* 568, 582)
BucketMissing(mode) ==
    CASE mode = "get" -> fail_json("Target bucket cannot be found")
      [] mode \in {"delobj", "delete"} -> fail_json_changed("Bucket does not exist.", "False")
      [] OTHER -> fail_json("Bucket %s does not exist.")

\* str.endswith, over the names the model uses
KeyStems == {""} \cup AllKeys
endswith(str, suffix) == \E stem \in KeyStems : str = stem \o suffix

\* a slip: the key is used as given
dirobj_AsGiven(obj) == obj

\* main(), mode == 'create', lines 549-552
dirobj(obj) == IF endswith(obj, "/") THEN obj ELSE obj \o "/"

\* ------------------------------------------------------------ steps
Goto(p, label) == pc' = [pc EXCEPT ![p] = label]
Issue(p, names) == calls' = [calls EXCEPT ![p] = calls[p] \o names]
Finish(p, o) ==
    /\ pc' = [pc EXCEPT ![p] = "done"]
    /\ outcome' = [outcome EXCEPT ![p] = o]
Crash(p, exc) ==
    /\ pc' = [pc EXCEPT ![p] = "crashed"]
    /\ outcome' = [outcome EXCEPT ![p] = Traceback(exc)]

NoLocals ==
    [bucketrtn |-> Unset, keyrtn |-> Unset, pathrtn |-> Unset, sum_matches |-> Unset,
     md5_remote |-> UnsetDigest, md5_local |-> UnsetDigest, x |-> 0, listed |-> {}]

GetParams ==
    {[mode |-> "get", obj |-> o, version |-> v, overwrite |-> w, retries |-> n,
      src |-> None, dest |-> d] :
        o \in Keys, v \in Versions, w \in Overwrites, n \in 0..MaxRetries,
        d \in Paths \cup {None}}

PutParams ==
    {[mode |-> "put", obj |-> o, version |-> None, overwrite |-> w, retries |-> 0,
      src |-> s, dest |-> None] :
        o \in Keys, w \in Overwrites, s \in Paths \cup {None}}

GetStrParams ==
    {[mode |-> "getstr", obj |-> o, version |-> v, overwrite |-> "always", retries |-> 0,
      src |-> None, dest |-> None] :
        o \in Keys \cup {None}, v \in Versions}

GetUrlParams ==
    {[mode |-> "geturl", obj |-> o, version |-> None, overwrite |-> "always", retries |-> 0,
      src |-> None, dest |-> None] :
        o \in Keys \cup {None}}

DelObjParams ==
    {[mode |-> "delobj", obj |-> o, version |-> None, overwrite |-> "always", retries |-> 0,
      src |-> None, dest |-> None] :
        o \in Keys \cup {None}}

DeleteParams ==
    {[mode |-> "delete", obj |-> None, version |-> None, overwrite |-> "always", retries |-> 0,
      src |-> None, dest |-> None]}

CreateParams ==
    {[mode |-> "create", obj |-> o, version |-> None, overwrite |-> "always", retries |-> 0,
      src |-> None, dest |-> None] :
        o \in AllKeys \cup {None}}

AllParams ==
    GetParams \cup PutParams \cup GetStrParams \cup GetUrlParams \cup DelObjParams
        \cup DeleteParams \cup CreateParams

\* main(), lines 418, 466, 510, 526, 540, 564 and 578: the branch of the mode
FirstLabel(q) ==
    CASE q.mode = "get" -> "get_bucket"
      [] q.mode = "put" -> "put_path"
      [] q.mode = "delobj" -> "delobj_bucket"
      [] q.mode = "delete" -> "delete_bucket"
      [] q.mode = "create" -> IF q.obj = None THEN "create_bucket" ELSE "createdir_bucket"
      [] q.mode = "geturl" -> "geturl_bucket"
      [] q.mode = "getstr" -> "getstr_bucket"

NoParams ==
    [mode |-> None, obj |-> None, version |-> None, overwrite |-> "always",
     retries |-> 0, src |-> None, dest |-> None]

Init ==
    /\ store \in StoreStates
    /\ fs \in [Paths -> FileStates]
    /\ pc = [p \in Procs |-> "start"]
    /\ params = [p \in Procs |-> NoParams]
    /\ lv = [p \in Procs |-> NoLocals]
    /\ calls = [p \in Procs |-> <<>>]
    /\ attempts = [p \in Procs |-> <<>>]
    /\ outcome = [p \in Procs |-> NoOutcome]
    /\ pre = [p \in Procs |-> [store |-> store, fs |-> fs]]
    /\ writes = <<>>

\* main(), lines 345-357: the parameters are read and the branch of the mode
\* is entered
Begin(p, choices) ==
    /\ pc[p] = "start"
    /\ \E q \in choices :
         /\ params' = [params EXCEPT ![p] = q]
         /\ Goto(p, FirstLabel(q))
    /\ pre' = [pre EXCEPT ![p] = [store |-> store, fs |-> fs]]
    /\ UNCHANGED <<store, fs, lv, calls, attempts, outcome, writes>>

Start(p) == Begin(p, AllParams)

\* bucket_check() as called at lines 421, 478, 514, 528, 542, 548, 566 and 580
BucketCheck(p, here, found, missing) ==
    /\ pc[p] = here
    /\ Issue(p, <<"lookup">>)
    /\ \E r \in {"ok", "error"} :
         IF r = "error"
         THEN /\ Finish(p, fail_json_exc("str(e)", "S3ResponseError", -1))
              /\ UNCHANGED lv
         ELSE /\ lv' = [lv EXCEPT ![p].bucketrtn = PyBool(store.exists)]
              /\ IF store.exists
                 THEN IF found = "exit"
                      THEN Finish(p, exit_json("Bucket already exists.", "False"))
                      ELSE Goto(p, found) /\ UNCHANGED outcome
                 ELSE IF missing = "fail"
                      THEN Finish(p, BucketMissing(params[p].mode))
                      ELSE Goto(p, missing) /\ UNCHANGED outcome
    /\ UNCHANGED <<store, fs, params, attempts, pre, writes>>

\* main(), mode == 'get', lines 421-423
GetBucketCheck(p) == BucketCheck(p, "get_bucket", "get_key", "fail")

\* the key an invocation acts on: obj, or in create mode dirobj
TargetKey(p) == IF params[p].mode = "create" THEN dirobj(params[p].obj) ELSE params[p].obj

\* key_check() as called at lines 426, 480, 554, 570 and 584
KeyCheck(p, here, version, next) ==
    /\ pc[p] = here
    /\ IF ~store.exists
       THEN /\ Issue(p, <<"lookup">>)
            /\ Crash(p, "AttributeError")
            /\ UNCHANGED lv
       ELSE /\ Issue(p, <<"lookup", "get_key">>)
            /\ \E r \in {"ok", "error400", "error"} :
                 LET v == key_check(r, version, store.keys[TargetKey(p)].exists) IN
                 IF v = "fail"
                 THEN /\ Finish(p, fail_json_exc("str(e)", "S3ResponseError", -1))
                      /\ UNCHANGED lv
                 ELSE /\ lv' = [lv EXCEPT ![p].keyrtn = v]
                      /\ CASE next[v] = "fail" ->
                                Finish(p, fail_json(
                                    IF version # None
                                    THEN "Key %s with version id %s does not exist."
                                    ELSE "Key %s does not exist."))
                           [] next[v] = "exists" ->
                                Finish(p, exit_json("Bucket %s and key %s already exists.", "False"))
                           [] OTHER -> Goto(p, next[v]) /\ UNCHANGED outcome
    /\ UNCHANGED <<store, fs, params, attempts, pre, writes>>

\* main(), mode == 'get', lines 426-431
GetKeyCheck(p) ==
    KeyCheck(p, "get_key", params[p].version,
             [v \in {"True", "False"} |-> IF v = "True" THEN "get_path" ELSE "fail"])

\* main(), mode == 'get', lines 434-439; dest is bound only when the dest
\* parameter was given (lines 348-349)
GetPathCheck(p) ==
    /\ pc[p] = "get_path"
    /\ IF params[p].dest = None
       THEN Crash(p, "UnboundLocalError") /\ UNCHANGED lv
       ELSE LET pathrtn == path_check(fs[params[p].dest]) IN
            /\ lv' = [lv EXCEPT ![p].pathrtn = PyBool(pathrtn)]
            /\ Goto(p, GetAfterPathCheck(pathrtn))
            /\ UNCHANGED outcome
    /\ UNCHANGED <<store, fs, params, calls, attempts, pre, writes>>

\* keysum() as called at lines 440 and 484
KeySum(p, here, next) ==
    /\ pc[p] = here
    /\ IF ~store.exists
       THEN /\ Issue(p, <<"lookup">>)
            /\ Crash(p, "AttributeError")
            /\ UNCHANGED lv
       ELSE LET ks == keysum(store.keys[params[p].obj]) IN
            /\ Issue(p, <<"lookup", "get_key">>)
            /\ IF ks.fail
               THEN /\ Finish(p, fail_json(
                        "Files uploaded with multipart of s3 are not supported with checksum, unable to compute checksum."))
                    /\ UNCHANGED lv
               ELSE /\ lv' = [lv EXCEPT ![p].md5_remote = ks.md5]
                    /\ Goto(p, next)
                    /\ UNCHANGED outcome
    /\ UNCHANGED <<store, fs, params, attempts, pre, writes>>

\* main(), mode == 'get', line 440
GetKeySum(p) == KeySum(p, "get_keysum", "get_compare")

\* main(), mode == 'get', lines 441-455
GetCompare(p) ==
    /\ pc[p] = "get_compare"
    /\ LET entry == fs[params[p].dest] IN
       IF entry.kind # "file"
       THEN Crash(p, "IOError") /\ UNCHANGED lv
       ELSE LET md5_local == get_md5_digest(entry.data)
                d == GetDecision(md5_local, lv[p].md5_remote, params[p].overwrite)
            IN  /\ lv' = [lv EXCEPT ![p].md5_local = md5_local,
                                    ![p].sum_matches = PyBool(md5_local = lv[p].md5_remote)]
                /\ CASE d = "download" -> Goto(p, "download") /\ UNCHANGED outcome
                     [] d = "identical" ->
                          Finish(p, exit_json(
                              "Local and remote object are identical, ignoring. Use overwrite=always parameter to force.",
                              "False"))
                     [] d = "warning" ->
                          Finish(p, exit_json(
                              "WARNING: Checksums do not match. Use overwrite parameter to force download.",
                              Unset))
    /\ UNCHANGED <<store, fs, params, calls, attempts, pre, writes>>

\* download_s3file(), lines 265-267: the bucket and the key are looked up
\* once, then the loop is entered (retries >= 0: it has a first pass)
Download(p) ==
    /\ pc[p] = "download"
    /\ IF ~store.exists
       THEN Issue(p, <<"lookup">>) /\ Crash(p, "AttributeError") /\ UNCHANGED lv
       ELSE /\ Issue(p, <<"lookup", "get_key">>)
            /\ IF ~store.keys[params[p].obj].exists
               THEN Crash(p, "AttributeError") /\ UNCHANGED lv
               ELSE /\ lv' = [lv EXCEPT ![p].x = 0]
                    /\ Goto(p, "download_try")
                    /\ UNCHANGED outcome
    /\ UNCHANGED <<store, fs, params, attempts, pre, writes>>

\* download_s3file(), lines 268-278: pass x of the loop.  A GET of an object
\* deleted since line 266 raises S3ResponseError, which no handler catches.
\* A failed get_contents_to_filename leaves dest as it was or removes it.
DownloadTry(p) ==
    /\ pc[p] = "download_try"
    /\ Issue(p, <<"get_contents_to_filename">>)
    /\ LET o == store.keys[params[p].obj]
           dest == params[p].dest
       IN  IF ~o.exists
           THEN /\ Crash(p, "S3ResponseError")
                /\ UNCHANGED <<fs, lv, attempts>>
           ELSE \E r \in {"ok", "copy_error", "ssl_error"} :
                LET step == RetryStep(r, lv[p].x, params[p].retries) IN
                /\ attempts' = [attempts EXCEPT ![p] = Append(attempts[p], r)]
                /\ IF r = "ok"
                   THEN fs' = [fs EXCEPT ![dest] = FileOf(o.data)]
                   ELSE \E e \in {fs[dest], NoFile} : fs' = [fs EXCEPT ![dest] = e]
                /\ CASE step = "exit" ->
                          /\ Finish(p, exit_json("GET operation complete", "True"))
                          /\ UNCHANGED lv
                     [] step = "fail_copy" ->
                          /\ Finish(p, fail_json_exc("str(e)", "S3CopyError", lv[p].x))
                          /\ UNCHANGED lv
                     [] step = "fail_ssl" ->
                          /\ Finish(p, fail_json_exc("s3 download failed; %s", "SSLError", lv[p].x))
                          /\ UNCHANGED lv
                     [] step = "again" ->
                          /\ lv' = [lv EXCEPT ![p].x = lv[p].x + 1]
                          /\ UNCHANGED <<pc, outcome>>
    /\ UNCHANGED <<store, params, pre, writes>>

\* main(), mode == 'put', lines 473-475; os.path.exists(None) raises TypeError
PutPathCheck(p) ==
    /\ pc[p] = "put_path"
    /\ IF params[p].src = None
       THEN Crash(p, "TypeError") /\ UNCHANGED lv
       ELSE LET pathrtn == path_check(fs[params[p].src]) IN
            /\ lv' = [lv EXCEPT ![p].pathrtn = PyBool(pathrtn)]
            /\ IF PutAfterPathCheck(pathrtn) = "fail"
               THEN Finish(p, fail_json("Local object for PUT does not exist"))
               ELSE Goto(p, PutAfterPathCheck(pathrtn)) /\ UNCHANGED outcome
    /\ UNCHANGED <<store, fs, params, calls, attempts, pre, writes>>

\* main(), mode == 'put', lines 478-479, and the branch of lines 501-503
\* taken when the bucket is missing
PutBucketCheck(p) ==
    BucketCheck(p, "put_bucket", PutAfterBucketCheck(TRUE), PutAfterBucketCheck(FALSE))

\* main(), mode == 'put', line 480, and the branches of lines 483 and 506
PutKeyCheck(p) ==
    KeyCheck(p, "put_key", None,
             [v \in {"True", "False"} |-> PutAfterKeyCheck(v = "True")])

\* main(), mode == 'put', line 484
PutKeySum(p) == KeySum(p, "put_keysum", "put_compare")

\* main(), mode == 'put', lines 485-498
PutCompare(p) ==
    /\ pc[p] = "put_compare"
    /\ LET entry == fs[params[p].src] IN
       IF entry.kind # "file"
       THEN Crash(p, "IOError") /\ UNCHANGED lv
       ELSE LET md5_local == get_md5_digest(entry.data)
                d == PutDecision(md5_local, lv[p].md5_remote, params[p].overwrite)
            IN  /\ lv' = [lv EXCEPT ![p].md5_local = md5_local,
                                    ![p].sum_matches = PyBool(md5_local = lv[p].md5_remote)]
                /\ CASE d = "upload" -> Goto(p, "upload") /\ UNCHANGED outcome
                     [] d = "geturl" -> Goto(p, "put_url") /\ UNCHANGED outcome
                     [] d = "warning" ->
                          Finish(p, exit_json(
                              "WARNING: Checksums do not match. Use overwrite parameter to force upload.",
                              Unset))
    /\ UNCHANGED <<store, fs, params, calls, attempts, pre, writes>>

\* create_bucket() as called at lines 502, 546 and 560; at line 546 its
\* result is the changed of the exit
CreateBucket(p, here, next) ==
    /\ pc[p] = here
    /\ Issue(p, <<"create_bucket">>)
    /\ \E r \in {"ok", "error"} :
         IF r = "error"
         THEN /\ Finish(p, fail_json_exc("str(e)", "S3ResponseError", -1))
              /\ UNCHANGED store
         ELSE /\ store' = IF store.exists THEN store ELSE EmptyBucket
              /\ IF next = "exit"
                 THEN Finish(p, exit_json("Bucket created successfully", "True"))
                 ELSE Goto(p, next) /\ UNCHANGED outcome
    /\ UNCHANGED <<fs, params, lv, attempts, pre, writes>>

\* main(), mode == 'put', line 502
PutCreateBucket(p) == CreateBucket(p, "put_create", "upload")

\* a slip in the store: a key that exists is not overwritten
PutObject_KeepsExisting(st, key, data) ==
    IF st.keys[key].exists THEN st ELSE [st EXCEPT !.keys[key] = ObjOf(data, FALSE)]

\* upload_s3file(), lines 251-256: bucket.new_key(obj) and
\* key.set_contents_from_filename(src) replace whatever the key held
PutObject(st, key, data) == [st EXCEPT !.keys[key] = ObjOf(data, FALSE)]

\* upload_s3file() as called at lines 490, 496, 503 and 507; opening a
\* directory or a missing file in set_contents_from_filename raises IOError
Upload(p) ==
    /\ pc[p] = "upload"
    /\ LET entry == fs[params[p].src] IN
       IF ~store.exists
       THEN /\ Issue(p, <<"lookup">>)
            /\ Crash(p, "AttributeError")
            /\ UNCHANGED <<store, writes>>
       ELSE IF entry.kind # "file"
       THEN /\ Issue(p, <<"lookup", "set_contents_from_filename">>)
            /\ Crash(p, "IOError")
            /\ UNCHANGED <<store, writes>>
       ELSE \E r \in {"ok", "copy_error"} :
            IF r = "ok"
            THEN /\ Issue(p, <<"lookup", "set_contents_from_filename", "generate_url">>)
                 /\ store' = PutObject(store, params[p].obj, entry.data)
                 /\ writes' = Append(writes, [by |-> p, key |-> params[p].obj, data |-> entry.data])
                 /\ Finish(p, exit_json("PUT operation complete", "True"))
            ELSE /\ Issue(p, <<"lookup", "set_contents_from_filename">>)
                 /\ Finish(p, fail_json_exc("str(e)", "S3CopyError", -1))
                 /\ UNCHANGED <<store, writes>>
    /\ UNCHANGED <<fs, params, lv, attempts, pre>>

\* get_download_url() as called at lines 492 and 572
GetDownloadUrl(p, here, changed) ==
    /\ pc[p] = here
    /\ IF ~store.exists
       THEN Issue(p, <<"lookup">>) /\ Crash(p, "AttributeError")
       ELSE IF ~store.keys[params[p].obj].exists
       THEN Issue(p, <<"lookup", "get_key">>) /\ Crash(p, "AttributeError")
       ELSE \E r \in {"ok", "error"} :
            IF r = "ok"
            THEN /\ Issue(p, <<"lookup", "get_key", "generate_url">>)
                 /\ Finish(p, exit_json("Download url:", changed))
            ELSE /\ Issue(p, <<"lookup", "get_key">>)
                 /\ Finish(p, fail_json_exc("str(e)", "S3ResponseError", -1))
    /\ UNCHANGED <<store, fs, params, lv, attempts, pre, writes>>

\* main(), mode == 'put', line 492: get_download_url(changed=False)
PutGetUrl(p) == GetDownloadUrl(p, "put_url", "False")

\* a test of the parameters that ends the invocation before any store call
ParamExit(p, here, o) ==
    /\ pc[p] = here
    /\ Finish(p, o)
    /\ UNCHANGED <<store, fs, params, lv, calls, attempts, pre, writes>>

\* main(), mode == 'delobj', lines 511-520
DelObjBucketCheck_NoParamTest(p) == BucketCheck(p, "delobj_bucket", "delobj_key", "fail")

DelObjBucketCheck(p) ==
    IF params[p].obj = None
    THEN ParamExit(p, "delobj_bucket", fail_json("object parameter is required"))
    ELSE BucketCheck(p, "delobj_bucket", "delobj_key", "fail")

\* a slip: the run reports a change only when the key was there
DeleteKey_OnlyIfPresent(p) ==
    /\ pc[p] = "delobj_key"
    /\ IF ~store.exists
       THEN Issue(p, <<"lookup">>) /\ Crash(p, "AttributeError") /\ UNCHANGED store
       ELSE /\ Issue(p, <<"lookup", "delete_key">>)
            /\ \E r \in {"ok", "error"} :
                 IF r = "ok"
                 THEN /\ store' = [store EXCEPT !.keys[params[p].obj] = NoObj]
                      /\ Finish(p, exit_json("Object deleted from bucket %s",
                                             PyBool(store.keys[params[p].obj].exists)))
                 ELSE /\ Finish(p, fail_json_exc("str(e)", "S3ResponseError", -1))
                      /\ UNCHANGED store
    /\ UNCHANGED <<fs, params, lv, attempts, pre, writes>>

\* delete_key(), lines 215-221: deleting a key the bucket does not hold is
\* not an error
DeleteKey(p) ==
    /\ pc[p] = "delobj_key"
    /\ IF ~store.exists
       THEN Issue(p, <<"lookup">>) /\ Crash(p, "AttributeError") /\ UNCHANGED store
       ELSE /\ Issue(p, <<"lookup", "delete_key">>)
            /\ \E r \in {"ok", "error"} :
                 IF r = "ok"
                 THEN /\ store' = [store EXCEPT !.keys[params[p].obj] = NoObj]
                      /\ Finish(p, exit_json("Object deleted from bucket %s", "True"))
                 ELSE /\ Finish(p, fail_json_exc("str(e)", "S3ResponseError", -1))
                      /\ UNCHANGED store
    /\ UNCHANGED <<fs, params, lv, attempts, pre, writes>>

\* main(), mode == 'delete', lines 527-534
DeleteBucketCheck(p) == BucketCheck(p, "delete_bucket", "delete_list", "fail")

\* delete_bucket(), lines 207-208: the bucket is looked up and its keys listed
DeleteList(p) ==
    /\ pc[p] = "delete_list"
    /\ IF ~store.exists
       THEN Issue(p, <<"lookup">>) /\ Crash(p, "AttributeError") /\ UNCHANGED lv
       ELSE /\ Issue(p, <<"lookup", "list">>)
            /\ \E r \in {"ok", "error"} :
                 IF r = "ok"
                 THEN /\ lv' = [lv EXCEPT ![p].listed = {k \in AllKeys : store.keys[k].exists}]
                      /\ Goto(p, "delete_keys")
                      /\ UNCHANGED outcome
                 ELSE /\ Finish(p, fail_json_exc("str(e)", "S3ResponseError", -1))
                      /\ UNCHANGED lv
    /\ UNCHANGED <<store, fs, params, attempts, pre, writes>>

\* a slip: delete_keys() removes nothing
DeletedKeys_None(listed) == {}

\* delete_bucket(), line 209: the keys delete_keys() removes are the listed ones
DeletedKeys(listed) == listed

\* delete_bucket(), line 209: bucket.delete_keys([key.name ...]), one batch
\* naming every listed key
DeleteKeys(p) ==
    /\ pc[p] = "delete_keys"
    /\ Issue(p, <<"delete_keys">>)
    /\ \E r \in {"ok", "error"} :
         IF r = "ok"
         THEN /\ store' = [store EXCEPT !.keys =
                              [k \in AllKeys |-> IF k \in DeletedKeys(lv[p].listed)
                                                 THEN NoObj ELSE store.keys[k]]]
              /\ Goto(p, "delete_del")
              /\ UNCHANGED outcome
         ELSE /\ Finish(p, fail_json_exc("str(e)", "S3ResponseError", -1))
              /\ UNCHANGED store
    /\ UNCHANGED <<fs, params, lv, attempts, pre, writes>>

\* delete_bucket(), lines 210-211 and main(), line 532: bucket.delete(); the
\* store refuses (409) to delete a bucket that still holds a key
DeleteBucket(p) ==
    /\ pc[p] = "delete_del"
    /\ Issue(p, <<"delete_bucket">>)
    /\ \E r \in {"ok", "error"} :
         IF r = "ok" /\ store.exists /\ \A k \in AllKeys : ~store.keys[k].exists
         THEN /\ store' = NoBucket
              /\ Finish(p, exit_json("Bucket %s and all keys have been deleted.", "True"))
         ELSE /\ Finish(p, fail_json_exc("str(e)", "S3ResponseError", -1))
              /\ UNCHANGED store
    /\ UNCHANGED <<fs, params, lv, attempts, pre, writes>>

\* a slip: the bucket is created whatever the bucket check returned
CreateBucketCheck_AlwaysCreates(p) ==
    BucketCheck(p, "create_bucket", "create_create", "create_create")

\* main(), mode == 'create' without obj, lines 541-544
CreateBucketCheck(p) == BucketCheck(p, "create_bucket", "exit", "create_create")

\* main(), mode == 'create' without obj, line 546
CreateCreateBucket(p) == CreateBucket(p, "create_create", "exit")

\* main(), mode == 'create' with obj, lines 547-548, 553 and 558
CreateDirBucketCheck(p) ==
    BucketCheck(p, "createdir_bucket", "createdir_key", "createdir_create")

\* main(), mode == 'create' with obj, lines 554-557
CreateDirKeyCheck(p) ==
    KeyCheck(p, "createdir_key", None,
             [v \in {"True", "False"} |-> IF v = "True" THEN "exists" ELSE "createdir_dirkey"])

\* main(), mode == 'create' with obj, line 559
CreateDirCreateBucket(p) == CreateBucket(p, "createdir_create", "createdir_dirkey")

\* create_dirkey(), lines 223-230, as called at lines 557 and 560
CreateDirkey(p) ==
    /\ pc[p] = "createdir_dirkey"
    /\ IF ~store.exists
       THEN Issue(p, <<"lookup">>) /\ Crash(p, "AttributeError") /\ UNCHANGED store
       ELSE /\ Issue(p, <<"lookup", "set_contents_from_string">>)
            /\ \E r \in {"ok", "error"} :
                 IF r = "ok"
                 THEN /\ store' = [store EXCEPT !.keys[TargetKey(p)] = ObjOf(<<>>, FALSE)]
                      /\ Finish(p, exit_json("Virtual directory %s created in bucket %s", "True"))
                 ELSE /\ Finish(p, fail_json_exc("str(e)", "S3ResponseError", -1))
                      /\ UNCHANGED store
    /\ UNCHANGED <<fs, params, lv, attempts, pre, writes>>

\* main(), mode == 'geturl', lines 565-568 and 575-576
GetUrlBucketCheck(p) ==
    IF params[p].obj = None
    THEN ParamExit(p, "geturl_bucket", fail_json("Bucket and Object parameters must be set"))
    ELSE BucketCheck(p, "geturl_bucket", "geturl_key", "fail")

\* main(), mode == 'geturl', lines 570-574
GetUrlKeyCheck(p) ==
    KeyCheck(p, "geturl_key", None,
             [v \in {"True", "False"} |-> IF v = "True" THEN "geturl_url" ELSE "fail"])

\* get_download_url()'s default, line 289: changed=True
GetUrlChanged_False == "False"

GetUrlChanged == "True"

\* main(), mode == 'geturl', line 572: get_download_url() with its default
GetUrlGetUrl(p) == GetDownloadUrl(p, "geturl_url", GetUrlChanged)

\* main(), mode == 'getstr', lines 579-582; without obj the branch is skipped
\* and line 593 ends the invocation
GetStrBucketCheck(p) ==
    IF params[p].obj = None
    THEN ParamExit(p, "getstr_bucket", exit_json("", Unset))
    ELSE BucketCheck(p, "getstr_bucket", "getstr_key", "fail")

\* main(), mode == 'getstr', lines 584-591
GetStrKeyCheck(p) ==
    KeyCheck(p, "getstr_key", params[p].version,
             [v \in {"True", "False"} |-> IF v = "True" THEN "getstr_download" ELSE "fail"])

\* download_s3str(), lines 280-287
DownloadStr(p) ==
    /\ pc[p] = "getstr_download"
    /\ IF ~store.exists
       THEN Issue(p, <<"lookup">>) /\ Crash(p, "AttributeError")
       ELSE IF ~store.keys[params[p].obj].exists
       THEN Issue(p, <<"lookup", "get_key">>) /\ Crash(p, "AttributeError")
       ELSE \E r \in {"ok", "copy_error"} :
            /\ Issue(p, <<"lookup", "get_key", "get_contents_as_string">>)
            /\ IF r = "ok"
               THEN Finish(p, exit_json("GET operation complete", "True"))
               ELSE Finish(p, fail_json_exc("str(e)", "S3CopyError", -1))
    /\ UNCHANGED <<store, fs, params, lv, attempts, pre, writes>>

\* ------------------------------------------------------------ specification
Step(p) ==
    \/ Start(p)
    \/ GetBucketCheck(p)
    \/ GetKeyCheck(p)
    \/ GetPathCheck(p)
    \/ GetKeySum(p)
    \/ GetCompare(p)
    \/ Download(p)
    \/ DownloadTry(p)
    \/ PutPathCheck(p)
    \/ PutBucketCheck(p)
    \/ PutKeyCheck(p)
    \/ PutKeySum(p)
    \/ PutCompare(p)
    \/ PutCreateBucket(p)
    \/ Upload(p)
    \/ PutGetUrl(p)
    \/ DelObjBucketCheck(p)
    \/ DeleteKey(p)
    \/ DeleteBucketCheck(p)
    \/ DeleteList(p)
    \/ DeleteKeys(p)
    \/ DeleteBucket(p)
    \/ CreateBucketCheck(p)
    \/ CreateCreateBucket(p)
    \/ CreateDirBucketCheck(p)
    \/ CreateDirKeyCheck(p)
    \/ CreateDirCreateBucket(p)
    \/ CreateDirkey(p)
    \/ GetUrlBucketCheck(p)
    \/ GetUrlKeyCheck(p)
    \/ GetUrlGetUrl(p)
    \/ GetStrBucketCheck(p)
    \/ GetStrKeyCheck(p)
    \/ DownloadStr(p)

\* one invocation, run from the parameters to its end
Next == Step(1)

Spec == Init /\ [][Next]_vars

\* ------------------------------------------------ successive invocations
\* two invocations of the modes that only read or write the store, the
\* second started when the first has ended
SeqContents == {<<>>, <<"a">>}
SeqStores ==
    {st \in StoreStates : \A k \in AllKeys : st.keys[k].data \in SeqContents}
SeqParams == DelObjParams \cup DeleteParams \cup CreateParams \cup GetUrlParams

InitSeq ==
    /\ store \in SeqStores
    /\ fs = [f \in Paths |-> NoFile]
    /\ pc = [p \in Procs |-> "start"]
    /\ params = [p \in Procs |-> NoParams]
    /\ lv = [p \in Procs |-> NoLocals]
    /\ calls = [p \in Procs |-> <<>>]
    /\ attempts = [p \in Procs |-> <<>>]
    /\ outcome = [p \in Procs |-> NoOutcome]
    /\ pre = [p \in Procs |-> [store |-> store, fs |-> fs]]
    /\ writes = <<>>

StartSeq(p) ==
    /\ \A q \in Procs : q < p => pc[q] \in {"done", "crashed"}
    /\ Begin(p, SeqParams)

StepSeq(p) ==
    \/ StartSeq(p)
    \/ DelObjBucketCheck(p)
    \/ DeleteKey(p)
    \/ DeleteBucketCheck(p)
    \/ DeleteList(p)
    \/ DeleteKeys(p)
    \/ DeleteBucket(p)
    \/ CreateBucketCheck(p)
    \/ CreateCreateBucket(p)
    \/ CreateDirBucketCheck(p)
    \/ CreateDirKeyCheck(p)
    \/ CreateDirCreateBucket(p)
    \/ CreateDirkey(p)
    \/ GetUrlBucketCheck(p)
    \/ GetUrlKeyCheck(p)
    \/ GetUrlGetUrl(p)

NextSeq == \E p \in Procs : StepSeq(p)

SpecSeq == InitSeq /\ [][NextSeq]_vars

\* ------------------------------------------------------- racing uploads
\* two put invocations on the same bucket and key, each with its own source
\* file, their store calls interleaved in every order
RacePaths == {"/f", "/g"}
RaceSrc == <<"/f", "/g">>
RaceContents == {<<"a">>, <<"b">>}
RaceStores ==
    {st \in StoreStates :
        /\ \A k \in DirKeys : ~st.keys[k].exists
        /\ \A k \in Keys : st.keys[k].exists =>
              st.keys[k].data \in RaceContents /\ ~st.keys[k].multipart}
RaceParams(p) == {[q EXCEPT !.src = RaceSrc[p]] : q \in {r \in PutParams : r.src # None}}

InitRace ==
    /\ store \in RaceStores
    /\ fs \in [RacePaths -> {FileOf(c) : c \in RaceContents}]
    /\ pc = [p \in Procs |-> "start"]
    /\ params = [p \in Procs |-> NoParams]
    /\ lv = [p \in Procs |-> NoLocals]
    /\ calls = [p \in Procs |-> <<>>]
    /\ attempts = [p \in Procs |-> <<>>]
    /\ outcome = [p \in Procs |-> NoOutcome]
    /\ pre = [p \in Procs |-> [store |-> store, fs |-> fs]]
    /\ writes = <<>>

StartRace(p) == Begin(p, RaceParams(p))

StepRace(p) ==
    \/ StartRace(p)
    \/ PutPathCheck(p)
    \/ PutBucketCheck(p)
    \/ PutKeyCheck(p)
    \/ PutKeySum(p)
    \/ PutCompare(p)
    \/ PutCreateBucket(p)
    \/ Upload(p)
    \/ PutGetUrl(p)

NextRace == \E p \in Procs : StepRace(p)

SpecRace == InitRace /\ [][NextRace]_vars

\* ------------------------------------------------------------ vocabulary
Has(p, name) == name \in Range(calls[p])
Ended(p) == pc[p] \in {"done", "crashed"}
Succeeded(p) == pc[p] = "done" /\ outcome[p].kind = "exit"
Failed(p) == pc[p] = "done" /\ outcome[p].kind = "fail"
\* the failure reports an error the store raised, not a decision of main()
StoreFailure(p) == Failed(p) /\ outcome[p].detail.exc \in {"S3ResponseError", "S3CopyError"}
\* exit_json without changed=True: the run reports no change
NoChange(p) == Succeeded(p) /\ outcome[p].changed # "True"
Compared(p) == lv[p].sum_matches # Unset
DownloadStarted(p) ==
    pc[p] \in {"download", "download_try"} \/ Has(p, "get_contents_to_filename")
UploadStarted(p) == pc[p] = "upload" \/ Has(p, "set_contents_from_filename")
Precedes(p, a, b) ==
    \E i, j \in 1..Len(calls[p]) : i < j /\ calls[p][i] = a /\ calls[p][j] = b
IsGet(p) == params[p].mode = "get"
IsPut(p) == params[p].mode = "put"
IsMode(p, m) == params[p].mode = m
\* how many times a call of that name was issued
Count(p, name) == Len(SelectSeq(calls[p], LAMBDA c : c = name))
\* the transfer of get (to a file) or of getstr (to a string) was issued
Transferred(p) == Has(p, "get_contents_to_filename") \/ Has(p, "get_contents_as_string")
\* no invocation has started after p: the store is as p left it
Latest(p) == \A q \in Procs : q > p => pc[q] = "start"
\* a call that deletes, or lists in order to delete, was issued
DeleteIssued(p) ==
    Has(p, "delete_key") \/ Has(p, "list") \/ Has(p, "delete_keys") \/ Has(p, "delete_bucket")
\* the keys a store state holds
KeysOf(st) == {k \in AllKeys : st.keys[k].exists}
\* a key with its trailing separator: itself when it is a directory key
WithSlash(o) == IF o \in DirKeys THEN o ELSE o \o "/"
\* the store holds the bucket and that key
Holds(st, k) == st.exists /\ st.keys[k].exists
\* messages that say the two sides are already the same
IdenticalMsgs ==
    {"Local and remote object are identical, ignoring. Use overwrite=always parameter to force."}
\* messages that say the policy blocked a transfer and how to force it
BlockedMsgs ==
    {"WARNING: Checksums do not match. Use overwrite parameter to force download.",
     "WARNING: Checksums do not match. Use overwrite parameter to force upload."}
KeyMissingMsg(version) ==
    IF version # None
    THEN "Key %s with version id %s does not exist."
    ELSE "Key %s does not exist."

\* ------------------------------------------------------------ claims
\* C1: in get mode, once the digest of the existing local file has been
\* compared with the remote digest, the run follows the table: equal and
\* always -> the download is started; equal and never or different -> the
\* run ends with changed=False and no download call; unequal and always or
\* different -> the download is started; unequal and never -> the run ends
\* successfully, reporting no change, with no download call.
C1_GetTable ==
    \A p \in Procs :
        (IsGet(p) /\ Compared(p)) =>
            LET match == lv[p].md5_local = lv[p].md5_remote
                w == params[p].overwrite
            IN  /\ pre[p].fs[params[p].dest].kind = "file"
                /\ lv[p].sum_matches = PyBool(match)
                /\ (match /\ w = "always") => DownloadStarted(p)
                /\ (match /\ w \in {"never", "different"}) =>
                        /\ Succeeded(p)
                        /\ outcome[p].changed = "False"
                        /\ ~DownloadStarted(p)
                /\ (~match /\ w \in {"always", "different"}) => DownloadStarted(p)
                /\ (~match /\ w = "never") => NoChange(p) /\ ~DownloadStarted(p)

C1_Witness ==
    \E p \in Procs :
        /\ IsGet(p) /\ lv[p].sum_matches = "True" /\ params[p].overwrite = "always"
        /\ Has(p, "get_contents_to_filename")
        /\ Succeeded(p) /\ outcome[p].changed = "True"

\* C4: with retry budget N the download is attempted at most N + 1 times;
\* N transport errors followed by a success end the run with changed=True;
\* N + 1 transport errors end it in a failure carrying the error of the last
\* attempt.
C4_RetryBudget ==
    \A p \in Procs :
        IsGet(p) =>
            LET n == params[p].retries
                a == attempts[p]
                allSsl(k) == \A i \in 1..k : a[i] = "ssl_error"
            IN  /\ Len(a) <= n + 1
                /\ Len(SelectSeq(calls[p], LAMBDA c : c = "get_contents_to_filename")) <= n + 1
                /\ (Len(a) = n + 1 /\ allSsl(n) /\ a[n + 1] = "ok") =>
                        Succeeded(p) /\ outcome[p].changed = "True"
                /\ (Len(a) = n + 1 /\ allSsl(n + 1)) =>
                        /\ Failed(p)
                        /\ outcome[p].msg = "s3 download failed; %s"
                        /\ outcome[p].detail = [exc |-> "SSLError", pass |-> n]

C4_Witness ==
    \E p \in Procs :
        /\ IsGet(p) /\ params[p].retries = 2
        /\ attempts[p] = <<"ssl_error", "ssl_error", "ok">>
        /\ Succeeded(p) /\ outcome[p].changed = "True"

\* C5: a copy error of the store in any pass of the download loop ends the
\* run in a failure at once: it is the last attempt, whatever budget is left.
C5_CopyErrorFatal ==
    \A p \in Procs :
        \A i \in 1..Len(attempts[p]) :
            attempts[p][i] = "copy_error" =>
                /\ i = Len(attempts[p])
                /\ Failed(p)
                /\ outcome[p].detail = [exc |-> "S3CopyError", pass |-> i - 1]

C5_Witness ==
    \E p \in Procs :
        /\ IsGet(p) /\ params[p].retries = 2
        /\ attempts[p] = <<"ssl_error", "copy_error">>
        /\ Failed(p)

\* C6: in get mode with policy never, an existing local file and differing
\* digests (as the run computed them, or as the contents differ), no download
\* call is issued and the local file is what it was when the run started.
C6_NeverKeepsLocal ==
    \A p \in Procs :
        (/\ IsGet(p) /\ params[p].overwrite = "never" /\ Compared(p)
         /\ \/ lv[p].sum_matches = "False"
            \/ pre[p].fs[params[p].dest].data # pre[p].store.keys[params[p].obj].data) =>
            /\ ~DownloadStarted(p)
            /\ fs[params[p].dest] = pre[p].fs[params[p].dest]
            /\ fs[params[p].dest].kind = "file"

C6_Witness ==
    \E p \in Procs :
        /\ IsGet(p) /\ params[p].overwrite = "never" /\ lv[p].sum_matches = "False"
        /\ Ended(p)
        /\ fs[params[p].dest].data # store.keys[params[p].obj].data

\* C2: in put mode with the key present, once the digest of the local
\* source has been compared with the remote digest, the run follows the
\* table with upload as the transfer: equal and always -> upload; equal and
\* never or different -> no upload, and the run reports changed=False unless
\* the store refuses the URL lookup; unequal and always or different ->
\* upload, changed=True when it succeeds; unequal and never -> no upload, the
\* store is what it was, the run reports no change.  With the bucket present
\* and the key absent the upload is issued whatever the policy, and no digest
\* is fetched or computed.
C2_PutTable ==
    \A p \in Procs :
        /\ (IsPut(p) /\ Compared(p)) =>
            LET match == lv[p].md5_local = lv[p].md5_remote
                w == params[p].overwrite
            IN  /\ lv[p].bucketrtn = "True" /\ lv[p].keyrtn = "True"
                /\ lv[p].sum_matches = PyBool(match)
                /\ (match /\ w = "always") => UploadStarted(p)
                /\ (match /\ w \in {"never", "different"}) =>
                        /\ ~UploadStarted(p)
                        /\ pc[p] \in {"put_url", "done"}
                        /\ store = pre[p].store
                        /\ pc[p] = "done" =>
                              \/ Succeeded(p) /\ outcome[p].changed = "False"
                              \/ StoreFailure(p)
                /\ (~match /\ w \in {"always", "different"}) =>
                        /\ UploadStarted(p)
                        /\ Succeeded(p) => outcome[p].changed = "True"
                /\ (~match /\ w = "never") =>
                        /\ ~UploadStarted(p)
                        /\ NoChange(p)
                        /\ store = pre[p].store
        /\ (IsPut(p) /\ lv[p].bucketrtn = "True" /\ lv[p].keyrtn = "False") =>
                /\ UploadStarted(p)
                /\ ~Compared(p)
                /\ lv[p].md5_remote = UnsetDigest /\ lv[p].md5_local = UnsetDigest
                /\ Succeeded(p) =>
                      /\ outcome[p].changed = "True"
                      /\ store.keys[params[p].obj] = ObjOf(fs[params[p].src].data, FALSE)

C2_Witness ==
    \E p \in Procs :
        /\ IsPut(p) /\ lv[p].sum_matches = "False" /\ params[p].overwrite = "different"
        /\ Has(p, "set_contents_from_filename")
        /\ Succeeded(p) /\ outcome[p].changed = "True"
        /\ store # pre[p].store

\* C3: when a digest comparison is due (get with the local destination
\* present, put with the remote key present) and the object's ETag carries
\* the multipart marker, no download or upload is started and the run ends
\* in a failure, for every policy and local content.
C3_MultipartFails ==
    \A p \in Procs :
        LET due == \/ IsGet(p) /\ lv[p].pathrtn = "True"
                   \/ IsPut(p) /\ lv[p].keyrtn = "True"
        IN  (due /\ pre[p].store.keys[params[p].obj].multipart) =>
                /\ ~DownloadStarted(p)
                /\ ~UploadStarted(p)
                /\ ~Compared(p)
                /\ pc[p] \in {"get_keysum", "put_keysum", "done"}
                /\ pc[p] = "done" => Failed(p)

C3_Witness ==
    \E p \in Procs :
        /\ IsPut(p) /\ lv[p].keyrtn = "True" /\ params[p].overwrite = "always"
        /\ pre[p].store.keys[params[p].obj].multipart
        /\ Failed(p)

\* C7 (as claimed): the local digest covers the whole file, so the digests
\* are found equal only when the local file and the remote object have the
\* same content.
C7_WholeFileDigest ==
    \A p \in Procs :
        lv[p].sum_matches = "True" =>
            LET path == IF IsGet(p) THEN params[p].dest ELSE params[p].src
            IN  pre[p].fs[path].data = pre[p].store.keys[params[p].obj].data

\* C8: in put mode with the bucket missing, whatever the policy: no key is
\* looked up and no digest fetched or computed, create_bucket is issued, the
\* upload follows it unless create_bucket fails, never precedes it, and a
\* successful run reports changed=True.
C8_CreateThenUpload ==
    \A p \in Procs :
        (IsPut(p) /\ lv[p].bucketrtn = "False") =>
            /\ ~Has(p, "get_key")
            /\ ~Compared(p)
            /\ lv[p].md5_remote = UnsetDigest /\ lv[p].md5_local = UnsetDigest
            /\ pc[p] = "upload" => Has(p, "create_bucket")
            /\ Has(p, "set_contents_from_filename") =>
                  /\ Precedes(p, "create_bucket", "set_contents_from_filename")
                  /\ ~Precedes(p, "set_contents_from_filename", "create_bucket")
            /\ Ended(p) =>
                  /\ Has(p, "create_bucket")
                  /\ Has(p, "set_contents_from_filename") \/ StoreFailure(p)
            /\ Succeeded(p) =>
                  /\ outcome[p].changed = "True"
                  /\ calls[p] = <<"lookup", "create_bucket", "lookup",
                                  "set_contents_from_filename", "generate_url">>

C8_Witness ==
    \E p \in Procs :
        /\ IsPut(p) /\ lv[p].bucketrtn = "False" /\ params[p].overwrite = "never"
        /\ ~pre[p].store.exists /\ store.exists
        /\ Succeeded(p) /\ outcome[p].changed = "True"

\* C9: in put mode with a source path that does not exist, the run fails
\* with "Local object for PUT does not exist" and issues no store call.
C9_MissingSourceFails ==
    \A p \in Procs :
        (IsPut(p) /\ params[p].src # None /\ pre[p].fs[params[p].src].kind = "absent") =>
            /\ calls[p] = <<>>
            /\ pc[p] \in {"put_path", "done"}
            /\ pc[p] = "done" =>
                  /\ Failed(p)
                  /\ outcome[p].msg = "Local object for PUT does not exist"
            /\ store = pre[p].store

C9_Witness ==
    \E p \in Procs :
        /\ IsPut(p) /\ params[p].src # None /\ pre[p].fs[params[p].src].kind = "absent"
        /\ Failed(p) /\ lv[p].pathrtn = "False"

\* C10 (as claimed): in put mode with a source path that is a directory, the
\* run fails and issues neither create_bucket nor an upload.
C10_DirectorySourceFails ==
    \A p \in Procs :
        (IsPut(p) /\ params[p].src # None /\ pre[p].fs[params[p].src].kind = "dir") =>
            /\ ~Has(p, "create_bucket")
            /\ ~Has(p, "set_contents_from_filename")
            /\ Ended(p) => Failed(p)

\* C11: in get and getstr modes, when the bucket does not exist the run fails
\* after the bucket check alone (no key check, no fingerprint fetch, no
\* transfer); when the bucket exists but the object or the requested version
\* does not, the run fails after the key check (no fingerprint fetch, no
\* transfer) and its message names the version id exactly when one was
\* given.  In both cases the local files are as they were.
C11_FailFast ==
    \A p \in Procs :
        ((IsMode(p, "get") \/ IsMode(p, "getstr")) /\ params[p].obj # None) =>
            /\ ~pre[p].store.exists =>
                  /\ calls[p] \in {<<>>, <<"lookup">>}
                  /\ lv[p].md5_remote = UnsetDigest
                  /\ fs = pre[p].fs
                  /\ Ended(p) =>
                        /\ Failed(p)
                        /\ StoreFailure(p) \/ outcome[p] = BucketMissing(params[p].mode)
            /\ (pre[p].store.exists
                  /\ (~pre[p].store.keys[params[p].obj].exists \/ lv[p].keyrtn = "False")) =>
                  /\ calls[p] \in {<<>>, <<"lookup">>, <<"lookup", "lookup", "get_key">>}
                  /\ ~Transferred(p)
                  /\ lv[p].md5_remote = UnsetDigest
                  /\ fs = pre[p].fs
                  /\ Ended(p) =>
                        /\ Failed(p)
                        /\ StoreFailure(p) \/ outcome[p].msg = KeyMissingMsg(params[p].version)

C11_Witness ==
    \E p \in Procs :
        /\ IsMode(p, "getstr") /\ params[p].version # None /\ params[p].obj # None
        /\ pre[p].store.exists /\ ~pre[p].store.keys[params[p].obj].exists
        /\ Failed(p) /\ lv[p].keyrtn = "False"
        /\ outcome[p].msg = "Key %s with version id %s does not exist."

\* C12: in get mode with the bucket and the key present and no file at the
\* destination path, whatever the overwrite policy, download_s3file is
\* entered once (as soon as the path check is done), no remote digest is
\* fetched and no local one computed, and a run that succeeds reports
\* changed=True after a transfer.
C12_AbsentDestDownloads ==
    \A p \in Procs :
        (IsGet(p) /\ params[p].dest # None
            /\ pre[p].store.exists /\ pre[p].store.keys[params[p].obj].exists
            /\ pre[p].fs[params[p].dest].kind = "absent") =>
            /\ lv[p].md5_remote = UnsetDigest
            /\ lv[p].md5_local = UnsetDigest
            /\ ~Compared(p)
            /\ calls[p] \in {<<>>, <<"lookup">>, <<"lookup", "lookup", "get_key">>}
                  \/ /\ SubSeq(calls[p], 1, 5) = <<"lookup", "lookup", "get_key", "lookup", "get_key">>
                     /\ \A i \in 6..Len(calls[p]) : calls[p][i] = "get_contents_to_filename"
            /\ lv[p].pathrtn # Unset => lv[p].pathrtn = "False" /\ DownloadStarted(p)
            /\ Ended(p) => Succeeded(p) \/ Failed(p)
            /\ Succeeded(p) =>
                  /\ outcome[p].changed = "True"
                  /\ Count(p, "get_contents_to_filename") >= 1
                  /\ attempts[p][Len(attempts[p])] = "ok"

C12_Witness ==
    \E p \in Procs :
        /\ IsGet(p) /\ params[p].dest # None /\ params[p].overwrite = "never"
        /\ pre[p].store.exists /\ pre[p].store.keys[params[p].obj].exists
        /\ pre[p].fs[params[p].dest].kind = "absent"
        /\ Succeeded(p) /\ outcome[p].changed = "True"
        /\ fs[params[p].dest] = FileOf(store.keys[params[p].obj].data)

\* C13: in delobj mode without the object parameter the run fails with
\* "object parameter is required" and issues no store call at all.
C13_DelObjNeedsObject ==
    \A p \in Procs :
        (IsMode(p, "delobj") /\ params[p].obj = None) =>
            /\ calls[p] = <<>>
            /\ store = pre[p].store
            /\ pc[p] \in {"delobj_bucket", "done"}
            /\ Ended(p) =>
                  /\ Failed(p)
                  /\ outcome[p].msg = "object parameter is required"

C13_Witness ==
    \E p \in Procs :
        /\ IsMode(p, "delobj") /\ params[p].obj = None
        /\ Failed(p) /\ calls[p] = <<>>

\* C14: in delobj (with an object) and delete modes the bucket check comes
\* before any delete call; when the bucket does not exist the run fails
\* ("Bucket does not exist.", or the store's error) and issues no delete_key,
\* list, delete_keys or delete call; so of two successive delete runs, when
\* the first succeeded (changed=True) the second fails.
C14_DeleteChecksBucket ==
    /\ \A p \in Procs :
        ((IsMode(p, "delobj") /\ params[p].obj # None) \/ IsMode(p, "delete")) =>
            /\ DeleteIssued(p) =>
                  /\ calls[p][1] = "lookup"
                  /\ lv[p].bucketrtn = "True"
                  /\ pre[p].store.exists
            /\ Succeeded(p) => pre[p].store.exists /\ outcome[p].changed = "True"
            /\ ~pre[p].store.exists =>
                  /\ calls[p] \in {<<>>, <<"lookup">>}
                  /\ Latest(p) => store = pre[p].store
                  /\ Ended(p) =>
                        /\ Failed(p)
                        /\ StoreFailure(p)
                              \/ outcome[p] = fail_json_changed("Bucket does not exist.", "False")
    /\ (IsMode(1, "delete") /\ IsMode(2, "delete") /\ Succeeded(1) /\ Ended(2)) =>
            /\ outcome[1].changed = "True"
            /\ Failed(2)
            /\ ~DeleteIssued(2)

C14_Witness ==
    /\ IsMode(1, "delete") /\ IsMode(2, "delete")
    /\ Succeeded(1) /\ outcome[1].changed = "True"
    /\ Failed(2) /\ outcome[2].msg = "Bucket does not exist."
    /\ Has(1, "delete_bucket") /\ calls[2] = <<"lookup">>

\* C15: in delete mode on an existing bucket holding the keys K, the one
\* delete_keys batch names exactly K and has removed every one of them when
\* the single bucket delete is issued; nothing is deleted after it; a run
\* that succeeds leaves neither the bucket nor any key and reports
\* changed=True.
C15_DrainThenDelete ==
    \A p \in Procs :
        (IsMode(p, "delete") /\ pre[p].store.exists) =>
            /\ Count(p, "delete_bucket") <= 1
            /\ Count(p, "delete_keys") <= 1
            /\ Has(p, "delete_keys") => lv[p].listed = KeysOf(pre[p].store)
            /\ pc[p] = "delete_del" => KeysOf(store) = {}
            /\ Has(p, "delete_bucket") =>
                  /\ calls[p] = <<"lookup", "lookup", "list", "delete_keys", "delete_bucket">>
                  /\ KeysOf(store) = {}
                  /\ Ended(p)
            /\ Ended(p) => Succeeded(p) \/ StoreFailure(p)
            /\ Succeeded(p) =>
                  /\ outcome[p].changed = "True"
                  /\ Has(p, "delete_bucket")
                  /\ store = NoBucket

C15_Witness ==
    \E p \in Procs :
        /\ IsMode(p, "delete") /\ pre[p].store.exists
        /\ KeysOf(pre[p].store) = AllKeys
        /\ Succeeded(p) /\ outcome[p].changed = "True"
        /\ store = NoBucket

\* C16: in create mode without an object, create_bucket is issued iff the
\* bucket check returned False, and the run reports changed=True iff it
\* created the bucket; so two successive runs on a store without the bucket
\* report changed=True and then changed=False, the second issuing no
\* create_bucket.
C16_CreateBucketIdempotent ==
    /\ \A p \in Procs :
        (IsMode(p, "create") /\ params[p].obj = None) =>
            /\ Has(p, "create_bucket") => lv[p].bucketrtn = "False" /\ ~pre[p].store.exists
            /\ (Ended(p) /\ lv[p].bucketrtn = "False") =>
                  calls[p] = <<"lookup", "create_bucket">>
            /\ lv[p].bucketrtn = "True" =>
                  /\ calls[p] = <<"lookup">>
                  /\ outcome[p] = exit_json("Bucket already exists.", "False")
            /\ Ended(p) => Succeeded(p) \/ StoreFailure(p)
            /\ Succeeded(p) => outcome[p].changed = PyBool(~pre[p].store.exists)
            /\ (Succeeded(p) /\ Latest(p)) =>
                  /\ store.exists
                  /\ store.keys = pre[p].store.keys
    /\ (IsMode(1, "create") /\ IsMode(2, "create") /\ params[1] = params[2]
            /\ params[1].obj = None /\ ~pre[1].store.exists /\ Succeeded(1)) =>
            /\ outcome[1].changed = "True"
            /\ ~Has(2, "create_bucket")
            /\ Succeeded(2) => outcome[2].changed = "False" /\ store = pre[2].store

C16_Witness ==
    /\ IsMode(1, "create") /\ IsMode(2, "create") /\ params[1] = params[2]
    /\ params[1].obj = None /\ ~pre[1].store.exists
    /\ Succeeded(1) /\ outcome[1].changed = "True" /\ Has(1, "create_bucket")
    /\ Succeeded(2) /\ outcome[2].changed = "False" /\ calls[2] = <<"lookup">>

\* C17: in create mode with an object k the key acted on is k with a
\* trailing '/' (k itself when it has one); an empty object is written
\* there iff the store did not hold that key, after create_bucket when the
\* bucket was absent, and no other key is touched; the run reports
\* changed=True iff it wrote.  So of two successive runs with the same k, or
\* with k and k + '/', the first reports changed=True and the second writes
\* nothing and reports changed=False.
C17_CreateDirIdempotent ==
    /\ \A p \in Procs :
        (IsMode(p, "create") /\ params[p].obj # None) =>
            LET d == WithSlash(params[p].obj) IN
            /\ Has(p, "set_contents_from_string") => ~Holds(pre[p].store, d)
            /\ Has(p, "create_bucket") =>
                  /\ ~pre[p].store.exists
                  /\ ~Precedes(p, "set_contents_from_string", "create_bucket")
            /\ Latest(p) => \A k \in AllKeys \ {d} : store.keys[k] = pre[p].store.keys[k]
            /\ Ended(p) => Succeeded(p) \/ StoreFailure(p)
            /\ Succeeded(p) =>
                  /\ outcome[p].changed = PyBool(~Holds(pre[p].store, d))
                  /\ Has(p, "set_contents_from_string") <=> ~Holds(pre[p].store, d)
                  /\ Has(p, "create_bucket") <=> ~pre[p].store.exists
                  /\ Latest(p) =>
                        /\ Holds(store, d)
                        /\ ~Holds(pre[p].store, d) => store.keys[d] = ObjOf(<<>>, FALSE)
                        /\ Holds(pre[p].store, d) => store = pre[p].store
    /\ (IsMode(1, "create") /\ IsMode(2, "create")
            /\ params[1].obj # None /\ params[2].obj # None
            /\ WithSlash(params[1].obj) = WithSlash(params[2].obj)
            /\ ~Holds(pre[1].store, WithSlash(params[1].obj)) /\ Succeeded(1)) =>
            /\ outcome[1].changed = "True"
            /\ ~Has(2, "set_contents_from_string") /\ ~Has(2, "create_bucket")
            /\ pc[2] # "start" => store = pre[2].store
            /\ Succeeded(2) => outcome[2].changed = "False"

C17_Witness ==
    /\ IsMode(1, "create") /\ IsMode(2, "create")
    /\ params[1].obj = "k" /\ params[2].obj = "k/"
    /\ ~pre[1].store.exists
    /\ Succeeded(1) /\ outcome[1].changed = "True"
    /\ Succeeded(2) /\ outcome[2].changed = "False"
    /\ store.keys["k/"] = ObjOf(<<>>, FALSE) /\ ~store.keys["k"].exists

\* C18: in geturl mode with an object, the store is never written; with the
\* bucket and the key present the run ends with a URL and changed=True (or
\* with the store's error), on every invocation; with the bucket or the key
\* missing it fails and generates no URL.
C18_GetUrlAlwaysChanged ==
    \A p \in Procs :
        (IsMode(p, "geturl") /\ params[p].obj # None) =>
            /\ Latest(p) => store = pre[p].store
            /\ Succeeded(p) =>
                  /\ outcome[p].changed = "True"
                  /\ outcome[p].msg = "Download url:"
                  /\ Has(p, "generate_url")
            /\ (Holds(pre[p].store, params[p].obj) /\ Ended(p)) =>
                  Succeeded(p) \/ StoreFailure(p)
            /\ ~Holds(pre[p].store, params[p].obj) =>
                  /\ ~Has(p, "generate_url")
                  /\ Ended(p) =>
                        /\ Failed(p)
                        /\ StoreFailure(p)
                              \/ outcome[p].msg \in {"Bucket %s does not exist.",
                                                     "Key %s does not exist."}

C18_Witness ==
    /\ IsMode(1, "geturl") /\ IsMode(2, "geturl")
    /\ Succeeded(1) /\ outcome[1].changed = "True"
    /\ Succeeded(2) /\ outcome[2].changed = "True"
    /\ store = pre[1].store /\ Holds(store, params[2].obj)

\* C19 (as claimed): an invocation that has ended has produced exactly one
\* terminal outcome, a success (exit_json) or a failure with a message
\* (fail_json); it never ends with none.
C19_OneOutcome ==
    \A p \in Procs :
        Ended(p) =>
            /\ outcome[p].kind \in {"exit", "fail"}
            /\ outcome[p].kind = "fail" => outcome[p].msg # ""

C21_ObjectRequired ==
    \A p \in Procs :
        ((IsMode(p, "getstr") \/ IsMode(p, "geturl")) /\ params[p].obj = None) =>
            /\ calls[p] = <<>>
            /\ ~Succeeded(p)
            /\ Ended(p) => Failed(p)

\* C22 (as claimed, for get and put): a successful run that compared the
\* digests and transferred nothing says "identical" when they matched under
\* never or different, and says the policy blocked the transfer when they
\* differed under never; every outcome of these modes has a message.
C22_MessagesNameKind ==
    \A p \in Procs :
        (IsGet(p) \/ IsPut(p)) =>
            /\ (Succeeded(p) /\ Compared(p)
                  /\ ~Transferred(p) /\ ~Has(p, "set_contents_from_filename")) =>
                  /\ (lv[p].sum_matches = "True"
                        /\ params[p].overwrite \in {"never", "different"}) =>
                        outcome[p].msg \in IdenticalMsgs
                  /\ (lv[p].sum_matches = "False" /\ params[p].overwrite = "never") =>
                        outcome[p].msg \in BlockedMsgs
            /\ (Succeeded(p) \/ Failed(p)) => outcome[p].msg # ""

\* C23: in delobj mode with an object, on an existing bucket, the run issues
\* one delete_key and no key check, and unless the store raises an error it
\* reports changed=True whether or not the bucket held the key, leaving the
\* key absent and the other keys as they were; so two successive runs on the
\* same key both report changed=True.
C23_DelObjAlwaysChanged ==
    /\ \A p \in Procs :
        (IsMode(p, "delobj") /\ params[p].obj # None /\ pre[p].store.exists) =>
            /\ ~Has(p, "get_key") /\ lv[p].keyrtn = Unset
            /\ Count(p, "delete_key") <= 1
            /\ Ended(p) =>
                  /\ Succeeded(p) \/ StoreFailure(p)
                  /\ lv[p].bucketrtn = "True" =>
                        calls[p] = <<"lookup", "lookup", "delete_key">>
            /\ Succeeded(p) =>
                  /\ outcome[p].changed = "True"
                  /\ Count(p, "delete_key") = 1
                  /\ Latest(p) =>
                        /\ ~store.keys[params[p].obj].exists
                        /\ \A k \in AllKeys \ {params[p].obj} :
                              store.keys[k] = pre[p].store.keys[k]
    /\ (IsMode(1, "delobj") /\ IsMode(2, "delobj") /\ params[1] = params[2]
            /\ params[1].obj # None /\ Succeeded(1) /\ Succeeded(2)) =>
            /\ outcome[1].changed = "True" /\ outcome[2].changed = "True"
            /\ ~pre[2].store.keys[params[2].obj].exists

C23_Witness ==
    /\ IsMode(1, "delobj") /\ IsMode(2, "delobj") /\ params[1] = params[2]
    /\ params[1].obj # None
    /\ Holds(pre[1].store, params[1].obj) /\ ~Holds(pre[2].store, params[2].obj)
    /\ Succeeded(1) /\ outcome[1].changed = "True"
    /\ Succeeded(2) /\ outcome[2].changed = "True"
    /\ Count(2, "delete_key") = 1

====
